---- MODULE Spec2Model ----
(***************************************************************************)
(* Model of src/src/server.py (piranha-mcp): the process-wide FLAGS_CACHE, *)
(* the flags.md parser, rule synthesis, and the two tools list_flags and   *)
(* apply_rewrite.  Python str values are TLA+ strings, Python lists are    *)
(* sequences, a Python dict is a sequence of [k, v] entries in insertion   *)
(* order, and an optional argument is <<>> (None) or <<v>>.                *)
(***************************************************************************)
EXTENDS Integers, Sequences, FiniteSets, TLC

VARIABLES FLAGS_CACHE, fs, call, result, submitted, cache_before, last_load,
          writes

vars == <<FLAGS_CACHE, fs, call, result, submitted, cache_before, last_load,
          writes>>

(***************************************************************************)
(* Python str primitives used by the server.                               *)
(***************************************************************************)
None == <<>>

Some(v) == <<v>>

IsSpace(c) == c \in {" ", "\t", "\n", "\r", "\f"}

RECURSIVE LStrip(_)
LStrip(s) ==
    IF s = "" THEN ""
    ELSE IF IsSpace(Head(s)) THEN LStrip(Tail(s)) ELSE s

RECURSIVE RStrip(_)
RStrip(s) ==
    IF s = "" THEN ""
    ELSE IF IsSpace(SubSeq(s, Len(s), Len(s)))
         THEN RStrip(SubSeq(s, 1, Len(s) - 1))
         ELSE s

Strip(s) == RStrip(LStrip(s))

StartsWith(s, p) == Len(s) >= Len(p) /\ SubSeq(s, 1, Len(p)) = p

\* needle in hay
Contains(needle, hay) ==
    \E i \in 1..(Len(hay) - Len(needle) + 1) :
        SubSeq(hay, i, i + Len(needle) - 1) = needle

UpperChars == "ABCDEFGHIJKLMNOPQRSTUVWXYZ"

LowerChars == "abcdefghijklmnopqrstuvwxyz"

\* The lowercase letter of each uppercase ASCII letter.
LowerTable ==
    [c \in {SubSeq(UpperChars, i, i) : i \in 1..26} |->
        LET i == CHOOSE j \in 1..26 : SubSeq(UpperChars, j, j) = c
        IN  SubSeq(LowerChars, i, i)]

LowerChar(c) == IF c \in DOMAIN LowerTable THEN LowerTable[c] ELSE c

\* str.lower()
RECURSIVE Lower(_)
Lower(s) ==
    IF s = "" THEN ""
    ELSE LowerChar(Head(s)) \o Lower(Tail(s))

\* Index of the first sep at or after position i of s, 0 when there is none.
RECURSIVE FindFrom(_, _, _)
FindFrom(s, sep, i) ==
    IF i > Len(s) THEN 0
    ELSE IF SubSeq(s, i, i) = sep THEN i
    ELSE FindFrom(s, sep, i + 1)

\* str.split(sep, maxsplit) for a one-character sep; n < 0 is "no limit".
RECURSIVE SplitAcc(_, _, _)
SplitAcc(s, sep, n) ==
    LET i == IF n = 0 THEN 0 ELSE FindFrom(s, sep, 1)
    IN  IF i = 0 THEN <<s>>
        ELSE <<SubSeq(s, 1, i - 1)>>
             \o SplitAcc(SubSeq(s, i + 1, Len(s)), sep, n - 1)

Split(s, sep) == SplitAcc(s, sep, -1)

SplitMax(s, sep, maxsplit) == SplitAcc(s, sep, maxsplit)

\* repr() of a list of plain strings, as an f-string interpolates it.
RECURSIVE PyListItems(_)
PyListItems(xs) ==
    IF xs = <<>> THEN ""
    ELSE "'" \o Head(xs) \o "'"
         \o (IF Tail(xs) = <<>> THEN "" ELSE ", " \o PyListItems(Tail(xs)))

PyListRepr(xs) == "[" \o PyListItems(xs) \o "]"

(***************************************************************************)
(* Python dict (insertion ordered).                                        *)
(***************************************************************************)
EmptyDict == <<>>

DictHas(d, k) == \E i \in 1..Len(d) : d[i].k = k

DictGet(d, k) == d[CHOOSE i \in 1..Len(d) : d[i].k = k].v

DictKeys(d) == [i \in 1..Len(d) |-> d[i].k]

DictSet(d, k, v) ==
    IF DictHas(d, k)
    THEN [i \in 1..Len(d) |-> IF d[i].k = k THEN [k |-> k, v |-> v] ELSE d[i]]
    ELSE Append(d, [k |-> k, v |-> v])

\* dict.get(key): None when the key is missing.
Get(d, key) == IF key \in DOMAIN d THEN Some(d[key]) ELSE None

\* dict.get(key, default)
GetOr(d, key, default) == IF key \in DOMAIN d THEN d[key] ELSE default

\* Truth value of an optional str argument: None and "" are falsy.
TruthyStr(x) == x # None /\ x[1] # ""

\* Truth value of an optional list or dict: None, [] and {} are falsy.
TruthySeq(x) == x # None /\ x[1] # <<>>

(***************************************************************************)
(* parse_flags_md                                                          *)
(***************************************************************************)
\* [f.strip() for f in line.split(',') if f.strip()]
RECURSIVE StripNonEmpty(_)
StripNonEmpty(parts) ==
    IF parts = <<>> THEN <<>>
    ELSE (IF Strip(Head(parts)) # "" THEN <<Strip(Head(parts))>> ELSE <<>>)
         \o StripNonEmpty(Tail(parts))

ParseFunctionsLine(line) == StripNonEmpty(Split(line, ","))

\* Variant: only the lowercase literal enables a flag.
ParseFlagLine_caseSensitive(flags, line) ==
    LET parts == SplitMax(line, ":", 3)
    IN  IF Len(parts) >= 2
        THEN LET flag_name    == Strip(parts[1])
                 value        == Strip(parts[2])
                 description  == IF Len(parts) > 2 THEN Strip(parts[3]) ELSE ""
                 replace_with == IF Len(parts) > 3 THEN Strip(parts[4]) ELSE value
             IN  DictSet(flags, flag_name,
                         [value |-> value,
                          description |-> description,
                          replace_with |-> replace_with,
                          enabled |-> (value = "true")])
        ELSE flags

\* Variant: the line is split at every colon.
ParseFlagLine_splitsAll(flags, line) ==
    LET parts == Split(line, ":")
    IN  IF Len(parts) >= 2
        THEN LET flag_name    == Strip(parts[1])
                 value        == Strip(parts[2])
                 description  == IF Len(parts) > 2 THEN Strip(parts[3]) ELSE ""
                 replace_with == IF Len(parts) > 3 THEN Strip(parts[4]) ELSE value
             IN  DictSet(flags, flag_name,
                         [value |-> value,
                          description |-> description,
                          replace_with |-> replace_with,
                          enabled |-> (Lower(value) = "true")])
        ELSE flags

\* Variant: a name that is already defined keeps its first record.
ParseFlagLine_keepsFirst(flags, line) ==
    LET parts == SplitMax(line, ":", 3)
    IN  IF Len(parts) >= 2 /\ ~DictHas(flags, Strip(parts[1]))
        THEN LET flag_name    == Strip(parts[1])
                 value        == Strip(parts[2])
                 description  == IF Len(parts) > 2 THEN Strip(parts[3]) ELSE ""
                 replace_with == IF Len(parts) > 3 THEN Strip(parts[4]) ELSE value
             IN  DictSet(flags, flag_name,
                         [value |-> value,
                          description |-> description,
                          replace_with |-> replace_with,
                          enabled |-> (Lower(value) = "true")])
        ELSE flags

ParseFlagLine(flags, line) ==
    LET parts == SplitMax(line, ":", 3)
    IN  IF Len(parts) >= 2
        THEN LET flag_name    == Strip(parts[1])
                 value        == Strip(parts[2])
                 description  == IF Len(parts) > 2 THEN Strip(parts[3]) ELSE ""
                 replace_with == IF Len(parts) > 3 THEN Strip(parts[4]) ELSE value
             IN  DictSet(flags, flag_name,
                         [value |-> value,
                          description |-> description,
                          replace_with |-> replace_with,
                          enabled |-> (Lower(value) = "true")])
        ELSE flags

\* Variant: once the catalog is set, further lines of the section are ignored.
ParseLine_firstFunctionsLine(st, raw) ==
    LET line == Strip(raw)
    IN  IF line = "## Functions"
        THEN [st EXCEPT !.in_functions = TRUE, !.in_flags = FALSE]
        ELSE IF line = "## Flags"
        THEN [st EXCEPT !.in_functions = FALSE, !.in_flags = TRUE]
        ELSE IF StartsWith(line, "##")
        THEN [st EXCEPT !.in_functions = FALSE, !.in_flags = FALSE]
        ELSE IF st.in_functions /\ line # ""
        THEN IF st.global_patterns = <<>>
             THEN [st EXCEPT !.global_patterns = ParseFunctionsLine(line)]
             ELSE st
        ELSE IF st.in_flags /\ line # "" /\ Contains(":", line)
        THEN [st EXCEPT !.flags = ParseFlagLine(st.flags, line)]
        ELSE st

\* Variant: a flag line without a colon ends the Flags section.
ParseLine_stopsAtMalformed(st, raw) ==
    LET line == Strip(raw)
    IN  IF line = "## Functions"
        THEN [st EXCEPT !.in_functions = TRUE, !.in_flags = FALSE]
        ELSE IF line = "## Flags"
        THEN [st EXCEPT !.in_functions = FALSE, !.in_flags = TRUE]
        ELSE IF StartsWith(line, "##")
        THEN [st EXCEPT !.in_functions = FALSE, !.in_flags = FALSE]
        ELSE IF st.in_functions /\ line # ""
        THEN [st EXCEPT !.global_patterns = ParseFunctionsLine(line)]
        ELSE IF st.in_flags /\ line # "" /\ Contains(":", line)
        THEN [st EXCEPT !.flags = ParseFlagLine(st.flags, line)]
        ELSE IF st.in_flags /\ line # ""
        THEN [st EXCEPT !.in_flags = FALSE]
        ELSE st

\* Variant: a heading other than the two known ones leaves the sections open.
ParseLine_otherHeadingIgnored(st, raw) ==
    LET line == Strip(raw)
    IN  IF line = "## Functions"
        THEN [st EXCEPT !.in_functions = TRUE, !.in_flags = FALSE]
        ELSE IF line = "## Flags"
        THEN [st EXCEPT !.in_functions = FALSE, !.in_flags = TRUE]
        ELSE IF StartsWith(line, "##")
        THEN st
        ELSE IF st.in_functions /\ line # ""
        THEN [st EXCEPT !.global_patterns = ParseFunctionsLine(line)]
        ELSE IF st.in_flags /\ line # "" /\ Contains(":", line)
        THEN [st EXCEPT !.flags = ParseFlagLine(st.flags, line)]
        ELSE st

\* One iteration of `for line in lines`; st is the loop's local state.
ParseLine(st, raw) ==
    LET line == Strip(raw)
    IN  IF line = "## Functions"
        THEN [st EXCEPT !.in_functions = TRUE, !.in_flags = FALSE]
        ELSE IF line = "## Flags"
        THEN [st EXCEPT !.in_functions = FALSE, !.in_flags = TRUE]
        ELSE IF StartsWith(line, "##")
        THEN [st EXCEPT !.in_functions = FALSE, !.in_flags = FALSE]
        ELSE IF st.in_functions /\ line # ""
        THEN [st EXCEPT !.global_patterns = ParseFunctionsLine(line)]
        ELSE IF st.in_flags /\ line # "" /\ Contains(":", line)
        THEN [st EXCEPT !.flags = ParseFlagLine(st.flags, line)]
        ELSE st

RECURSIVE ParseLines(_, _)
ParseLines(st, lines) ==
    IF lines = <<>> THEN st
    ELSE ParseLines(ParseLine(st, Head(lines)), Tail(lines))

\* Lines 224-227: the locals before the loop.
InitialParseState ==
    [flags |-> EmptyDict, global_patterns |-> <<>>,
     in_functions |-> FALSE, in_flags |-> FALSE]

parse_flags_md(content) ==
    LET st == ParseLines(InitialParseState, Split(content, "\n"))
    IN  [flags |-> st.flags, global_patterns |-> st.global_patterns]

(***************************************************************************)
(* generate_rules_for_flag.  The global FLAGS_CACHE it reads is the first  *)
(* parameter; `language` is accepted and unused, as in the source.         *)
(***************************************************************************)
\* Variant: a disabled flag keeps its configured replacement.
ReplaceValue_ignoresEnabled(flag_info) ==
    GetOr(flag_info, "replace_with", IF flag_info.enabled THEN "true" ELSE "false")

\* Variant: an enabled flag is always replaced by the literal "true".
ReplaceValue_alwaysTrue(flag_info) ==
    IF flag_info.enabled THEN "true" ELSE "false"

ReplaceValue(flag_info) ==
    IF flag_info.enabled
    THEN GetOr(flag_info, "replace_with", "true")
    ELSE "false"

\* Variant: the two-argument shapes come in the other order.
CallPatterns_swapped(function_name, flag_name) ==
    << function_name \o "(\"" \o flag_name \o "\")",
       function_name \o "($args, \"" \o flag_name \o "\")",
       function_name \o "(\"" \o flag_name \o "\", $args)",
       function_name \o "($args, \"" \o flag_name \o "\", $more_args)" >>

CallPatterns(function_name, flag_name) ==
    << function_name \o "(\"" \o flag_name \o "\")",
       function_name \o "(\"" \o flag_name \o "\", $args)",
       function_name \o "($args, \"" \o flag_name \o "\")",
       function_name \o "($args, \"" \o flag_name \o "\", $more_args)" >>

\* Variant: a catalog entry that occurs again later is expanded only once.
RECURSIVE AllPatterns_dedup(_, _)
AllPatterns_dedup(global_patterns, flag_name) ==
    IF global_patterns = <<>> THEN <<>>
    ELSE (IF \E i \in 2..Len(global_patterns) :
                 global_patterns[i] = Head(global_patterns)
          THEN <<>>
          ELSE CallPatterns(Head(global_patterns), flag_name))
         \o AllPatterns_dedup(Tail(global_patterns), flag_name)

RECURSIVE AllPatterns(_, _)
AllPatterns(global_patterns, flag_name) ==
    IF global_patterns = <<>> THEN <<>>
    ELSE CallPatterns(Head(global_patterns), flag_name)
         \o AllPatterns(Tail(global_patterns), flag_name)

\* Variant: the index restarts for every catalog entry.
MakeRule_perEntryIndex(flag_name, i, pattern, replace_value) ==
    [name |-> "replace_" \o flag_name \o "_" \o ToString(i % 4),
     query |-> "cs " \o pattern,
     replace_node |-> "*",
     replace |-> replace_value,
     is_seed_rule |-> TRUE]

\* The rule built for enumerate() index i (0-based) and its pattern.
MakeRule(flag_name, i, pattern, replace_value) ==
    [name |-> "replace_" \o flag_name \o "_" \o ToString(i),
     query |-> "cs " \o pattern,
     replace_node |-> "*",
     replace |-> replace_value,
     is_seed_rule |-> TRUE]

\* Variant: only Go gets the shapes with further arguments.
generate_rules_for_flag_goOnly(cache, flag_name, flag_info, language) ==
    LET replace_value == ReplaceValue(flag_info)
    IN  IF ~TruthySeq(Get(cache, "global_patterns"))
           \/ Len(cache["global_patterns"]) = 0
        THEN <<>>
        ELSE LET all == AllPatterns(cache["global_patterns"], flag_name)
                 patterns == IF language = "go" THEN all
                             ELSE SubSeq(all, 1, 1)
             IN  [j \in 1..Len(patterns) |->
                    MakeRule(flag_name, j - 1, patterns[j], replace_value)]

generate_rules_for_flag(cache, flag_name, flag_info, language) ==
    LET replace_value == ReplaceValue(flag_info)
    IN  IF ~TruthySeq(Get(cache, "global_patterns"))
           \/ Len(cache["global_patterns"]) = 0
        THEN <<>>
        ELSE LET patterns == AllPatterns(cache["global_patterns"], flag_name)
             IN  [j \in 1..Len(patterns) |->
                    MakeRule(flag_name, j - 1, patterns[j], replace_value)]

(***************************************************************************)
(* The file system seen through Path.exists() and open().read(), and the   *)
(* external engine seen through execute_piranha().                         *)
(***************************************************************************)
NoFile == [exists |-> FALSE, readable |-> FALSE, content |-> ""]

Unreadable == [exists |-> TRUE, readable |-> FALSE, content |-> ""]

File(content) == [exists |-> TRUE, readable |-> TRUE, content |-> content]

\* str(e) of the exception open()/read() raises on an unreadable file.
ReadErrorText == "Permission denied"

Cwd == "/repo/work"

ProjectDir == "/Users/harrisbeg/Desktop/Work/Projects/mcp-piranha"

\* Path(p).parent for an absolute path with at least two components.
RECURSIVE DropLastComponent(_)
DropLastComponent(p) ==
    IF p = "" THEN ""
    ELSE IF SubSeq(p, Len(p), Len(p)) = "/" THEN SubSeq(p, 1, Len(p) - 1)
    ELSE DropLastComponent(SubSeq(p, 1, Len(p) - 1))

PathParent(p) == DropLastComponent(p)

\* Path(dir) / "flags.md"
FlagsPath(dir) == dir \o "/flags.md"

\* Lines 63-70: the first candidate that exists, else the last candidate.
ProbeFlagsFile(files) ==
    IF files[FlagsPath(Cwd)].exists THEN FlagsPath(Cwd)
    ELSE IF files[FlagsPath(PathParent(Cwd))].exists
         THEN FlagsPath(PathParent(Cwd))
         ELSE FlagsPath(ProjectDir)

\* Variant: the parse result is merged into the registry already held.
RECURSIVE DictUpdate(_, _)
DictUpdate(d, e) ==
    IF e = <<>> THEN d ELSE DictUpdate(DictSet(d, Head(e).k, Head(e).v), Tail(e))

InstallCache_merge(old, parsed_data) ==
    [flags |-> DictUpdate(GetOr(old, "flags", EmptyDict), parsed_data.flags),
     global_patterns |-> GetOr(old, "global_patterns", <<>>)
                         \o parsed_data.global_patterns]

\* Lines 75-78 and 193-196: the assignment to the global FLAGS_CACHE; `old`
\* is the value the global held before the assignment.
InstallCache(old, parsed_data) ==
    [flags |-> parsed_data.flags, global_patterns |-> parsed_data.global_patterns]

\* Line 55: FLAGS_CACHE.get("flags") and flag_name in FLAGS_CACHE["flags"]
CacheHasFlag(cache, name) ==
    TruthySeq(Get(cache, "flags")) /\ DictHas(cache["flags"], name)

\* What one tool invocation yields: the response, the new FLAGS_CACHE, the
\* calls it made to execute_piranha (arguments and what the engine did, in
\* order), and the content of the config file it read and parsed (None when
\* it loaded nothing).
Outcome(res, cache, sub, loaded) ==
    [result |-> res, cache |-> cache, submitted |-> sub, loaded |-> loaded]

(***************************************************************************)
(* apply_rewrite                                                           *)
(***************************************************************************)
\* Line 83: the response after an on-demand load that defines the flag.
LoadedResponse(code, flag_name, rules) ==
    [debug |-> "Loaded flag " \o flag_name \o ", generated "
               \o ToString(Len(rules)) \o " rules",
     transformed_code |-> code]

\* Variant: the message leaves out the first known flag.
FlagNotFoundResponse_omitsFirst(code, flag_name, flags) ==
    [error |-> "Flag '" \o flag_name
               \o "' not found in flags.md. Available flags: "
               \o PyListRepr(IF flags = <<>> THEN <<>> ELSE Tail(DictKeys(flags))),
     transformed_code |-> code]

\* Line 85: the flag is not in the registry that was just loaded.
FlagNotFoundResponse(code, flag_name, flags) ==
    [error |-> "Flag '" \o flag_name
               \o "' not found in flags.md. Available flags: "
               \o PyListRepr(DictKeys(flags)),
     transformed_code |-> code]

\* Variant: the error response carries no snippet.
ConfigNotFoundResponse_noSnippet(code) ==
    [error |-> "flags.md not found in current directory",
     transformed_code |-> ""]

\* Line 87: no candidate file exists.
ConfigNotFoundResponse(code) ==
    [error |-> "flags.md not found in current directory",
     transformed_code |-> code]

\* Lines 88-89: reading or parsing the file raised; error_msg = str(e).
LoadFailedResponse(code, error_msg) ==
    [error |-> "Failed to load flags: " \o error_msg,
     transformed_code |-> code]

\* Lines 59-89: flag_name given, not served from the cache.
\* Variant: a load that finds no file leaves an empty registry behind.
LoadOnDemand_clearsOnMiss(cache, files, code, language, flag_name) ==
    LET flags_file == ProbeFlagsFile(files)
    IN  IF files[flags_file].exists
        THEN IF ~files[flags_file].readable
             THEN Outcome(LoadFailedResponse(code, ReadErrorText),
                          cache, <<>>, None)
             ELSE LET content  == files[flags_file].content
                      newcache == InstallCache(cache, parse_flags_md(content))
                  IN  IF DictHas(newcache["flags"], flag_name)
                      THEN LET flag_info == DictGet(newcache["flags"], flag_name)
                               rules == generate_rules_for_flag(
                                            newcache, flag_name, flag_info, language)
                           IN  Outcome(LoadedResponse(code, flag_name, rules),
                                       newcache, <<>>, Some(content))
                      ELSE Outcome(FlagNotFoundResponse(code, flag_name,
                                                        newcache["flags"]),
                                   newcache, <<>>, Some(content))
        ELSE Outcome(ConfigNotFoundResponse(code), EmptyDict, <<>>, None)

LoadOnDemand(cache, files, code, language, flag_name) ==
    LET flags_file == ProbeFlagsFile(files)
    IN  IF files[flags_file].exists
        THEN IF ~files[flags_file].readable
             THEN Outcome(LoadFailedResponse(code, ReadErrorText),
                          cache, <<>>, None)
             ELSE LET content  == files[flags_file].content
                      newcache == InstallCache(cache, parse_flags_md(content))
                  IN  IF DictHas(newcache["flags"], flag_name)
                      THEN LET flag_info == DictGet(newcache["flags"], flag_name)
                               rules == generate_rules_for_flag(
                                            newcache, flag_name, flag_info, language)
                           IN  Outcome(LoadedResponse(code, flag_name, rules),
                                       newcache, <<>>, Some(content))
                      ELSE Outcome(FlagNotFoundResponse(code, flag_name,
                                                        newcache["flags"]),
                                   newcache, <<>>, Some(content))
        ELSE Outcome(ConfigNotFoundResponse(code), cache, <<>>, None)

\* Lines 97-110: one supplied rule dict turned into Rule(**rule_dict).
NormalizeRule(r) ==
    LET base == [name |-> GetOr(r, "name", "unnamed_rule"),
                 query |-> GetOr(r, "query", ""),
                 is_seed_rule |-> GetOr(r, "is_seed_rule", FALSE),
                 replace |-> GetOr(r, "replace", "")]
    IN  IF "replace_node" \in DOMAIN r
        THEN [name |-> base.name, query |-> base.query,
              is_seed_rule |-> base.is_seed_rule, replace |-> base.replace,
              replace_node |-> r["replace_node"]]
        ELSE base

\* Lines 114-118: one supplied edge dict turned into OutgoingEdges(**edge_dict).
NormalizeEdge(r) ==
    [from_rule |-> GetOr(r, "from_rule", ""),
     to |-> GetOr(r, "to", ""),
     scope |-> GetOr(r, "scope", "parent")]

\* Variant: the generic failure response omits the snippet.
HandleException_noSnippet(code, error_msg) ==
    IF Contains("Cannot parse the tree-sitter query", error_msg)
    THEN [error |-> "Invalid tree-sitter query syntax: " \o error_msg
                    \o ". Please check the Piranha documentation for correct query syntax.",
          transformed_code |-> code,
          suggestion |-> "Try using simpler queries like 'if_stmt' or check the Piranha examples for proper syntax."]
    ELSE [error |-> "Piranha execution failed: " \o error_msg]

\* Variant: only query-syntax errors are handled, anything else is re-raised
\* and leaves the tool as an exception.
HandleException_reraises(code, error_msg) ==
    IF Contains("Cannot parse the tree-sitter query", error_msg)
    THEN [error |-> "Invalid tree-sitter query syntax: " \o error_msg
                    \o ". Please check the Piranha documentation for correct query syntax.",
          transformed_code |-> code,
          suggestion |-> "Try using simpler queries like 'if_stmt' or check the Piranha examples for proper syntax."]
    ELSE [exception |-> error_msg, transformed_code |-> code]

\* Lines 133-142: the outer except clause, error_msg = str(e).
HandleException(code, error_msg) ==
    IF Contains("Cannot parse the tree-sitter query", error_msg)
    THEN [error |-> "Invalid tree-sitter query syntax: " \o error_msg
                    \o ". Please check the Piranha documentation for correct query syntax.",
          transformed_code |-> code,
          suggestion |-> "Try using simpler queries like 'if_stmt' or check the Piranha examples for proper syntax."]
    ELSE [error |-> "Piranha execution failed: " \o error_msg,
          transformed_code |-> code]

\* Variant: an empty summary list is reported as an error.
EngineResponse_zeroIsError(code, rules, summaries) ==
    IF Len(summaries) > 0
    THEN [transformed_code |-> summaries[1].content]
    ELSE [error |-> "No transformations applied",
          transformed_code |-> code]

\* Lines 127-131: what is returned for the engine's summaries.
EngineResponse(code, rules, summaries) ==
    IF Len(summaries) > 0
    THEN [transformed_code |-> summaries[1].content]
    ELSE [transformed_code |-> code,
          message |-> "No transformations applied",
          debug |-> "Generated " \o ToString(Len(rules)) \o " rules"]

\* Lines 93-131 and the except clause: rules is a list, edges is an optional
\* list; engine is what execute_piranha does when it is called.
\* Variant: after an engine failure the same arguments are submitted again.
RunRules_retries(cache, code, language, rules, edges, engine) ==
    IF edges = None
    THEN Outcome(HandleException(code, "'NoneType' object is not iterable"),
                 cache, <<>>, None)
    ELSE LET rule_objs == [i \in 1..Len(rules) |-> NormalizeRule(rules[i])]
             edge_objs == [i \in 1..Len(edges[1]) |-> NormalizeEdge(edges[1][i])]
             args == [code_snippet |-> code, language |-> language,
                      rules |-> rule_objs, edges |-> edge_objs]
         IN  IF engine.raises
             THEN Outcome(HandleException(code, engine.text),
                          cache, <<[args |-> args, outcome |-> engine],
                                   [args |-> args, outcome |-> engine]>>, None)
             ELSE Outcome(EngineResponse(code, rules, engine.summaries),
                          cache, <<[args |-> args, outcome |-> engine]>>, None)

RunRules(cache, code, language, rules, edges, engine) ==
    IF edges = None
    THEN \* `for r in edges` raises TypeError before the engine is reached
         Outcome(HandleException(code, "'NoneType' object is not iterable"),
                 cache, <<>>, None)
    ELSE LET rule_objs == [i \in 1..Len(rules) |-> NormalizeRule(rules[i])]
             edge_objs == [i \in 1..Len(edges[1]) |-> NormalizeEdge(edges[1][i])]
             args == [code_snippet |-> code, language |-> language,
                      rules |-> rule_objs, edges |-> edge_objs]
         IN  IF engine.raises
             THEN Outcome(HandleException(code, engine.text),
                          cache, <<[args |-> args, outcome |-> engine]>>, None)
             ELSE Outcome(EngineResponse(code, rules, engine.summaries),
                          cache, <<[args |-> args, outcome |-> engine]>>, None)

apply_rewrite(cache, files, code, language, rules, edges, flag_name, engine) ==
    IF TruthyStr(flag_name) /\ CacheHasFlag(cache, flag_name[1])
    THEN LET flag_info == DictGet(cache["flags"], flag_name[1])
         IN  RunRules(cache, code, language,
                      generate_rules_for_flag(cache, flag_name[1], flag_info, language),
                      Some(<<>>), engine)
    ELSE IF TruthyStr(flag_name)
    THEN LoadOnDemand(cache, files, code, language, flag_name[1])
    ELSE IF rules = None
    THEN RunRules(cache, code, language, <<>>,
                  IF TruthySeq(edges) THEN edges ELSE Some(<<>>), engine)
    ELSE RunRules(cache, code, language, rules[1], edges, engine)

(***************************************************************************)
(* list_flags                                                              *)
(***************************************************************************)
\* Lines 176-181: the config file is absent.
ListNotFoundResponse(dir) ==
    [error |-> "flags.md not found in " \o dir,
     flags |-> <<>>,
     suggestion |-> "Create a flags.md file with flag definitions"]

\* Variant: the failure response has no flags field.
ListReadFailedResponse_noFlags(flags_file, error_msg) ==
    [error |-> "Failed to read flags.md: " \o error_msg,
     source_file |-> flags_file]

\* Lines 206-211: reading or parsing raised; error_msg = str(e).
ListReadFailedResponse(flags_file, error_msg) ==
    [error |-> "Failed to read flags.md: " \o error_msg,
     flags |-> <<>>,
     source_file |-> flags_file]

\* Some line of the document is the heading.
HasSection(content, heading) ==
    \E i \in 1..Len(Split(content, "\n")) :
        Strip(Split(content, "\n")[i]) = heading

\* Variant: a document lacking one of the two sections is a failed read.
list_flags_requiresSections(cache, files, working_directory) ==
    LET dir == IF working_directory = None THEN Cwd ELSE working_directory[1]
        flags_file == FlagsPath(dir)
    IN  IF ~files[flags_file].exists
        THEN Outcome(ListNotFoundResponse(dir), cache, <<>>, None)
        ELSE IF ~files[flags_file].readable
        THEN Outcome(ListReadFailedResponse(flags_file, ReadErrorText),
                     cache, <<>>, None)
        ELSE IF ~HasSection(files[flags_file].content, "## Functions")
                \/ ~HasSection(files[flags_file].content, "## Flags")
        THEN Outcome(ListReadFailedResponse(flags_file, "missing section"),
                     cache, <<>>, None)
        ELSE LET content == files[flags_file].content
                 parsed_data == parse_flags_md(content)
                 flags == parsed_data.flags
                 global_patterns == parsed_data.global_patterns
             IN  Outcome([flags |-> DictKeys(flags),
                          flag_details |-> flags,
                          global_patterns |-> global_patterns,
                          source_file |-> flags_file,
                          message |-> "Loaded " \o ToString(Len(flags))
                                      \o " flags and "
                                      \o ToString(Len(global_patterns))
                                      \o " global patterns from " \o flags_file],
                         InstallCache(cache, parsed_data), <<>>, Some(content))

list_flags(cache, files, working_directory) ==
    LET dir == IF working_directory = None THEN Cwd ELSE working_directory[1]
        flags_file == FlagsPath(dir)
    IN  IF ~files[flags_file].exists
        THEN Outcome(ListNotFoundResponse(dir), cache, <<>>, None)
        ELSE IF ~files[flags_file].readable
        THEN Outcome(ListReadFailedResponse(flags_file, ReadErrorText),
                     cache, <<>>, None)
        ELSE LET content == files[flags_file].content
                 parsed_data == parse_flags_md(content)
                 flags == parsed_data.flags
                 global_patterns == parsed_data.global_patterns
             IN  Outcome([flags |-> DictKeys(flags),
                          flag_details |-> flags,
                          global_patterns |-> global_patterns,
                          source_file |-> flags_file,
                          message |-> "Loaded " \o ToString(Len(flags))
                                      \o " flags and "
                                      \o ToString(Len(global_patterns))
                                      \o " global patterns from " \o flags_file],
                         InstallCache(cache, parsed_data), <<>>, Some(content))

(***************************************************************************)
(* Inputs of the model.                                                    *)
(***************************************************************************)
MaxWrites == 2

DocBoth == "## Functions\nf\n## Flags\na:true::x\nb:false::y"

DocOther == "## Functions\ng, f\n## Flags\nb:True\n:true"

DocNoFunctions == "## Flags\na:false\nc:TRUE"

DocEmpty == "# Feature Flags"

DocNoFlags == "## Functions\nf"

Docs == {DocBoth, DocOther, DocNoFunctions, DocEmpty, DocNoFlags}

FileStates == {NoFile, Unreadable} \cup {File(d) : d \in Docs}

Dirs == {Cwd, PathParent(Cwd), ProjectDir}

Paths == {FlagsPath(d) : d \in Dirs}

\* A structured configuration file next to the document one.
JsonPath(dir) == dir \o "/flags.json"

JsonPaths == {JsonPath(Cwd)}

JsonSample ==
    "{\"functions\": [\"f\"], \"flags\": {\"a\": {\"value\": true}, \"b\": {\"value\": \"false\"}}}"

\* The contents a file at path p may have.
FileStatesAt(p) ==
    IF p \in JsonPaths THEN {NoFile, File(JsonSample)} ELSE FileStates

Codes == {"if f(\"a\") { run() }"}

Languages == {"go"}

RuleFull == [name |-> "replace_true", query |-> "cs true",
             replace |-> "false", is_seed_rule |-> TRUE]

RuleBare == [query |-> "cs x", replace_node |-> "*"]

RuleInputs == {None, Some(<<>>), Some(<<RuleBare, RuleFull>>)}

EdgeBare == [from_rule |-> "replace_true", to |-> "unnamed_rule"]

EdgeInputs == {None, Some(<<>>), Some(<<EdgeBare>>)}

FlagNameInputs == {None, Some(""), Some("a"), Some("b"), Some("zz")}

DirInputs == {None} \cup {Some(d) : d \in Dirs}

Returns(summaries) == [raises |-> FALSE, summaries |-> summaries, text |-> ""]

Raises(text) == [raises |-> TRUE, summaries |-> <<>>, text |-> text]

EngineOutcomes ==
    {Returns(<<[content |-> "if true { run() }"], [content |-> "second"]>>),
     Returns(<<>>),
     Raises("Cannot parse the tree-sitter query: cs x"),
     Raises("unsupported language")}

(***************************************************************************)
(* The server as a state machine: one step per tool invocation, one step   *)
(* that hands the response back to the caller, and the environment editing *)
(* the config files between invocations.  Invocations do not overlap.      *)
(***************************************************************************)
NoCall == [op |-> "none"]

Init ==
    /\ FLAGS_CACHE = EmptyDict
    /\ fs = [p \in Paths \cup JsonPaths |-> NoFile]
    /\ call = NoCall
    /\ result = EmptyDict
    /\ submitted = <<>>
    /\ cache_before = EmptyDict
    /\ last_load = None
    /\ writes = 0

Finish(o) ==
    /\ FLAGS_CACHE' = o.cache
    /\ result' = o.result
    /\ submitted' = o.submitted
    /\ cache_before' = FLAGS_CACHE
    /\ last_load' = IF o.loaded = None THEN last_load ELSE o.loaded
    /\ UNCHANGED <<fs, writes>>

Idle == call.op = "none"

ApplyRewrite ==
    /\ Idle
    /\ \E code \in Codes, language \in Languages, rules \in RuleInputs,
          edges \in EdgeInputs, flag_name \in FlagNameInputs,
          engine \in EngineOutcomes :
        /\ call' = [op |-> "apply_rewrite", code |-> code,
                    language |-> language, rules |-> rules, edges |-> edges,
                    flag_name |-> flag_name]
        /\ Finish(apply_rewrite(FLAGS_CACHE, fs, code, language, rules,
                                edges, flag_name, engine))

ListFlags ==
    /\ Idle
    /\ \E working_directory \in DirInputs :
        /\ call' = [op |-> "list_flags", working_directory |-> working_directory]
        /\ Finish(list_flags(FLAGS_CACHE, fs, working_directory))

\* The tool returns: the response leaves the server.
Respond ==
    /\ ~Idle
    /\ call' = NoCall
    /\ result' = EmptyDict
    /\ submitted' = <<>>
    /\ cache_before' = EmptyDict
    /\ UNCHANGED <<FLAGS_CACHE, fs, last_load, writes>>

WriteFile ==
    /\ Idle
    /\ writes < MaxWrites
    /\ \E p \in Paths \cup JsonPaths :
       \E f \in FileStatesAt(p) :
        /\ f # fs[p]
        /\ fs' = [fs EXCEPT ![p] = f]
        /\ writes' = writes + 1
        /\ UNCHANGED <<FLAGS_CACHE, call, result, submitted, cache_before,
                       last_load>>

Next == ApplyRewrite \/ ListFlags \/ Respond \/ WriteFile

Spec == Init /\ [][Next]_vars

(***************************************************************************)
(* generate_rules_for_flag called directly, as the unit tests call it: the *)
(* cache is whatever the caller stored in FLAGS_CACHE beforehand.          *)
(***************************************************************************)
MaxCatalog == 2

FunctionNames == {"f", "g"}

Catalogs == UNION {[1..n -> FunctionNames] : n \in 0..MaxCatalog}

GenCaches ==
    {EmptyDict, [flags |-> EmptyDict]}
    \cup {[flags |-> EmptyDict, global_patterns |-> c] : c \in Catalogs}

GenFlagNames == {"a", "beta"}

GenLanguages == {"go", "java"}

Replacements == {"x", "false", "True"}

FlagInfos ==
    {[enabled |-> e] : e \in BOOLEAN}
    \cup {[enabled |-> e, replace_with |-> r] :
            e \in BOOLEAN, r \in Replacements}
    \cup {[value |-> "true", description |-> "", replace_with |-> r,
           enabled |-> e] : e \in BOOLEAN, r \in Replacements}

InitGen ==
    /\ FLAGS_CACHE \in GenCaches
    /\ fs = [p \in Paths \cup JsonPaths |-> NoFile]
    /\ call = NoCall
    /\ result = <<>>
    /\ submitted = <<>>
    /\ cache_before = EmptyDict
    /\ last_load = None
    /\ writes = 0

GenerateRules ==
    /\ Idle
    /\ \E flag_name \in GenFlagNames, flag_info \in FlagInfos,
          language \in GenLanguages :
        /\ call' = [op |-> "generate_rules_for_flag", flag_name |-> flag_name,
                    flag_info |-> flag_info, language |-> language]
        /\ result' = generate_rules_for_flag(FLAGS_CACHE, flag_name,
                                             flag_info, language)
        /\ UNCHANGED <<FLAGS_CACHE, fs, submitted, cache_before, last_load,
                       writes>>

RespondGen ==
    /\ ~Idle
    /\ call' = NoCall
    /\ result' = <<>>
    /\ UNCHANGED <<FLAGS_CACHE, fs, submitted, cache_before, last_load,
                   writes>>

NextGen == GenerateRules \/ RespondGen

SpecGen == InitGen /\ [][NextGen]_vars

(***************************************************************************)
(* parse_flags_md called directly on documents made of a `## Functions`    *)
(* section and a `## Flags` section.  Every line comes with the names or   *)
(* the fields a reader of the format expects from it (none for a line that *)
(* is blank or, under Flags, has no colon).                                *)
(***************************************************************************)
MaxFnLines == 2

MaxFlagLines == 3

FnLine(text, names) == [text |-> text, names |-> names]

FnLineSet ==
    {FnLine("f,g", <<"f", "g">>),
     FnLine(" h , ,f ", <<"h", "f">>),
     FnLine(",", <<>>),
     FnLine("", <<>>)}

FlagLine(text, fields) == [text |-> text, fields |-> fields]

FlagLineSet ==
    {FlagLine("a:true", <<"a", "true">>),
     FlagLine("a:TRUE:d:r:s", <<"a", "TRUE", "d", "r:s">>),
     FlagLine(" b : no : why ", <<"b", "no", "why">>),
     FlagLine("b:True:d:", <<"b", "True", "d", "">>),
     FlagLine("A:false", <<"A", "false">>),
     FlagLine("nocolon", <<>>),
     FlagLine("", <<>>)}

FnSections == UNION {[1..n -> FnLineSet] : n \in 0..MaxFnLines}

FlagSections == UNION {[1..n -> FlagLineSet] : n \in 0..MaxFlagLines}

\* "\n".join(lines)
RECURSIVE JoinLines(_)
JoinLines(lines) ==
    IF lines = <<>> THEN ""
    ELSE IF Tail(lines) = <<>> THEN Head(lines)
    ELSE Head(lines) \o "\n" \o JoinLines(Tail(lines))

DocText(fn_lines, flag_lines) ==
    JoinLines(<<"## Functions">>
              \o [i \in 1..Len(fn_lines) |-> fn_lines[i].text]
              \o <<"## Flags">>
              \o [i \in 1..Len(flag_lines) |-> flag_lines[i].text])

ParseDoc ==
    /\ Idle
    /\ \E fn_lines \in FnSections, flag_lines \in FlagSections :
        /\ call' = [op |-> "parse_flags_md", fn_lines |-> fn_lines,
                    flag_lines |-> flag_lines]
        /\ result' = parse_flags_md(DocText(fn_lines, flag_lines))
        /\ UNCHANGED <<FLAGS_CACHE, fs, submitted, cache_before, last_load,
                       writes>>

(***************************************************************************)
(* parse_flags_md on documents made of headings and content lines in any   *)
(* order.  A line is a heading of kind functions, flags or other, or text  *)
(* with the names it gives as a Functions line and the fields it gives as  *)
(* a Flags line.                                                           *)
(***************************************************************************)
MaxDocLines == 5

DocLine(text, kind, names, fields) ==
    [text |-> text, kind |-> kind, names |-> names, fields |-> fields]

DocLineSet ==
    {DocLine("## Functions", "functions", <<>>, <<>>),
     DocLine(" ## Flags", "flags", <<>>, <<>>),
     DocLine("## Notes", "other", <<>>, <<>>),
     DocLine("## flags", "other", <<>>, <<>>),
     DocLine("f,g", "text", <<"f", "g">>, <<>>),
     DocLine("a:true", "text", <<"a:true">>, <<"a", "true">>)}

DocLineSeqs == UNION {[1..n -> DocLineSet] : n \in 0..MaxDocLines}

LineTexts(lines) == [i \in 1..Len(lines) |-> lines[i].text]

\* The locals of the parser's loop after each of the first i lines.
LoopStates(texts) ==
    [i \in 1..Len(texts) |-> ParseLines(InitialParseState, SubSeq(texts, 1, i))]

ParseSections ==
    /\ Idle
    /\ \E lines \in DocLineSeqs :
        /\ call' = [op |-> "parse_flags_md", lines |-> lines,
                    states |-> LoopStates(LineTexts(lines))]
        /\ result' = parse_flags_md(JoinLines(LineTexts(lines)))
        /\ UNCHANGED <<FLAGS_CACHE, fs, submitted, cache_before, last_load,
                       writes>>

NextSections == ParseSections \/ Respond

SpecSections == Init /\ [][NextSections]_vars

NextParse == ParseDoc \/ Respond

SpecParse == Init /\ [][NextParse]_vars

(***************************************************************************)
(* The structured (JSON) configuration format.  A JSON scalar is a boolean *)
(* or a string; a flag object has a value and may have a description and a *)
(* replace_with; a configuration object has a flags object and may have a  *)
(* functions array.                                                        *)
(***************************************************************************)
JBool(b) == [t |-> "bool", b |-> b, s |-> ""]

JStr(s) == [t |-> "str", b |-> FALSE, s |-> s]

JsonFlag(value, description, replace_with) ==
    [value |-> value, description |-> description,
     replace_with |-> replace_with]

JsonValues == {JBool(TRUE), JBool(FALSE), JStr("true"), JStr("True"), JStr("off")}

JsonDescriptions == {None, Some("d")}

JsonReplacements == {None, Some(JBool(FALSE)), Some(JStr("x"))}

JsonFlags ==
    {JsonFlag(v, d, r) :
        v \in JsonValues, d \in JsonDescriptions, r \in JsonReplacements}

JsonFlagMaps ==
    {<<>>}
    \cup {<<[k |-> "a", v |-> f]>> : f \in JsonFlags}
    \cup {<<[k |-> "a", v |-> JsonFlag(JBool(TRUE), None, None)],
            [k |-> "b", v |-> JsonFlag(x, None, None)]>> : x \in JsonValues}

JsonFunctions == {None, Some(<<>>), Some(<<"f", "g">>)}

JsonObjects ==
    {[functions |-> fn, flags |-> m] : fn \in JsonFunctions, m \in JsonFlagMaps}

Quoted(s) == "\"" \o s \o "\""

\* ", ".join(items)
RECURSIVE JoinComma(_)
JoinComma(items) ==
    IF items = <<>> THEN ""
    ELSE IF Tail(items) = <<>> THEN Head(items)
    ELSE Head(items) \o ", " \o JoinComma(Tail(items))

ScalarText(x) ==
    IF x.t = "bool" THEN (IF x.b THEN "true" ELSE "false") ELSE Quoted(x.s)

FlagObjectText(f) ==
    "{\"value\": " \o ScalarText(f.value)
    \o (IF f.description = None THEN ""
        ELSE ", \"description\": " \o Quoted(f.description[1]))
    \o (IF f.replace_with = None THEN ""
        ELSE ", \"replace_with\": " \o ScalarText(f.replace_with[1]))
    \o "}"

\* json.dumps(obj): the text of a configuration object.
json_dumps(obj) ==
    "{"
    \o (IF obj.functions = None THEN ""
        ELSE "\"functions\": ["
             \o JoinComma([i \in 1..Len(obj.functions[1]) |->
                              Quoted(obj.functions[1][i])])
             \o "], ")
    \o "\"flags\": {"
    \o JoinComma([i \in 1..Len(obj.flags) |->
                     Quoted(obj.flags[i].k) \o ": "
                     \o FlagObjectText(obj.flags[i].v)])
    \o "}}"

\* Texts that are not well-formed JSON, each with the decoder's message.
MalformedDocs ==
    {[text |-> "{\"flags\": invalid json}", obj |-> None,
      error |-> "Expecting value: line 1 column 11 (char 10)"],
     [text |-> "", obj |-> None,
      error |-> "Expecting value: line 1 column 1 (char 0)"],
     [text |-> "{\"flags\": {\"a\": {\"value\": true}}", obj |-> None,
      error |-> "Expecting ',' delimiter: line 1 column 33 (char 32)"],
     [text |-> DocBoth, obj |-> None,
      error |-> "Expecting value: line 1 column 1 (char 0)"]}

WellFormedDocs ==
    {[text |-> json_dumps(o), obj |-> Some(o), error |-> ""] : o \in JsonObjects}

JsonDocs == WellFormedDocs \cup MalformedDocs

\* The text of every well-formed configuration, mapped back to its object.
JsonTable == [d \in WellFormedDocs |-> d.text]

\* json.loads(text): the object the text denotes, or the decoder's error.
json_loads(text) ==
    IF \E d \in WellFormedDocs : JsonTable[d] = text
    THEN [ok |-> TRUE,
          obj |-> (CHOOSE d \in WellFormedDocs : JsonTable[d] = text).obj[1]]
    ELSE [ok |-> FALSE,
          msg |-> (CHOOSE d \in MalformedDocs : d.text = text).error]

\* str(x) of a scalar with booleans lowercased.
ScalarString(x) == IF x.t = "bool" THEN (IF x.b THEN "true" ELSE "false") ELSE x.s

\* Variant: booleans keep Python's capitalised spelling.
JsonFlagRecord_pyStr(f) ==
    LET PyStr(x) == IF x.t = "bool" THEN (IF x.b THEN "True" ELSE "False") ELSE x.s
        value == PyStr(f.value)
    IN  [value |-> value,
         description |-> IF f.description = None THEN "" ELSE f.description[1],
         replace_with |-> IF f.replace_with = None THEN value
                          ELSE PyStr(f.replace_with[1]),
         enabled |-> IF f.value.t = "bool" THEN f.value.b
                     ELSE Lower(f.value.s) = "true"]

\* The flag record of one flag object.
JsonFlagRecord(f) ==
    LET value == ScalarString(f.value)
    IN  [value |-> value,
         description |-> IF f.description = None THEN "" ELSE f.description[1],
         replace_with |-> IF f.replace_with = None THEN value
                          ELSE ScalarString(f.replace_with[1]),
         enabled |-> IF f.value.t = "bool" THEN f.value.b
                     ELSE Lower(f.value.s) = "true"]

\* Variant: a text that is not well-formed parses to an empty configuration.
parse_flags_json_lenient(content) ==
    LET data == json_loads(content)
    IN  IF ~data.ok
        THEN [flags |-> EmptyDict, global_patterns |-> <<>>]
        ELSE [flags |-> [i \in 1..Len(data.obj.flags) |->
                           [k |-> data.obj.flags[i].k,
                            v |-> JsonFlagRecord(data.obj.flags[i].v)]],
              global_patterns |-> IF data.obj.functions = None THEN <<>>
                                  ELSE data.obj.functions[1]]

parse_flags_json(content) ==
    LET data == json_loads(content)
    IN  IF ~data.ok
        THEN [raised |-> "ValueError",
              message |-> "Invalid JSON: " \o data.msg]
        ELSE [flags |-> [i \in 1..Len(data.obj.flags) |->
                           [k |-> data.obj.flags[i].k,
                            v |-> JsonFlagRecord(data.obj.flags[i].v)]],
              global_patterns |-> IF data.obj.functions = None THEN <<>>
                                  ELSE data.obj.functions[1]]

\* One attempt to load a structured configuration into the registry.
LoadStructured ==
    /\ Idle
    /\ \E doc \in JsonDocs :
        LET parsed == parse_flags_json(doc.text)
        IN  /\ call' = [op |-> "parse_flags_json", doc |-> doc]
            /\ result' = parsed
            /\ cache_before' = FLAGS_CACHE
            /\ FLAGS_CACHE' = IF "raised" \in DOMAIN parsed THEN FLAGS_CACHE
                              ELSE InstallCache(FLAGS_CACHE, parsed)
            /\ UNCHANGED <<fs, submitted, last_load, writes>>

NextJson == LoadStructured \/ Respond

SpecJson == Init /\ [][NextJson]_vars

(***************************************************************************)
(* The two functions that take no part in installing the registry, called  *)
(* on their own while the registry holds something.                        *)
(***************************************************************************)
\* Variant: the parser installs what it parsed.
ParseText_installs ==
    /\ Idle
    /\ \E content \in Docs :
        /\ call' = [op |-> "parse_flags_md", content |-> content]
        /\ result' = parse_flags_md(content)
        /\ FLAGS_CACHE' = InstallCache(FLAGS_CACHE, parse_flags_md(content))
        /\ UNCHANGED <<fs, submitted, cache_before, last_load, writes>>

ParseText ==
    /\ Idle
    /\ \E content \in Docs :
        /\ call' = [op |-> "parse_flags_md", content |-> content]
        /\ result' = parse_flags_md(content)
        /\ UNCHANGED <<FLAGS_CACHE, fs, submitted, cache_before, last_load,
                       writes>>

NextPure == ParseText \/ GenerateRules \/ RespondGen

SpecPure == InitGen /\ [][NextPure]_vars

(***************************************************************************)
(* Two invocations in flight.  One apply_rewrite serves a flag from the    *)
(* cache in two steps, the lookup of the flag record (lines 55-56) and the *)
(* read of the catalog inside generate_rules_for_flag (lines 294-307);     *)
(* the assignment of FLAGS_CACHE by another invocation (lines 73-76 or     *)
(* 191-194) may fall before, between or after them.                        *)
(***************************************************************************)
RaceFlagNames == {"a", "b", "c"}

\* The registries a load of one of the documents installs.
RegistryVersions == {InstallCache(EmptyDict, parse_flags_md(d)) : d \in Docs}

InitRace ==
    /\ FLAGS_CACHE \in RegistryVersions
    /\ fs = [p \in Paths \cup JsonPaths |-> NoFile]
    /\ call = NoCall
    /\ result = EmptyDict
    /\ submitted = <<>>
    /\ cache_before = EmptyDict
    /\ last_load = None
    /\ writes = 0

\* Lines 55-56: the flag is in the cache; its record is taken.
RaceLookup ==
    /\ Idle
    /\ \E flag_name \in RaceFlagNames, language \in GenLanguages :
        /\ CacheHasFlag(FLAGS_CACHE, flag_name)
        /\ call' = [op |-> "apply_rewrite", pc |-> "generate",
                    flag_name |-> flag_name, language |-> language,
                    flag_info |-> DictGet(FLAGS_CACHE["flags"], flag_name),
                    catalog |-> <<>>]
        /\ cache_before' = FLAGS_CACHE
        /\ UNCHANGED <<FLAGS_CACHE, fs, result, submitted, last_load, writes>>

\* Lines 57, 294-320: the rules are built from the record taken earlier and
\* the catalog the cache holds now.
RaceGenerate ==
    /\ call.op = "apply_rewrite"
    /\ call.pc = "generate"
    /\ call' = [call EXCEPT !.pc = "done",
                            !.catalog = GetOr(FLAGS_CACHE, "global_patterns", <<>>)]
    /\ result' = [rules |-> generate_rules_for_flag(
                               FLAGS_CACHE, call.flag_name, call.flag_info,
                               call.language)]
    /\ UNCHANGED <<FLAGS_CACHE, fs, submitted, cache_before, last_load, writes>>

\* Lines 73-76, 191-194: another invocation installs the registry it loaded.
RaceReplace ==
    /\ \E content \in Docs :
        /\ FLAGS_CACHE' = InstallCache(FLAGS_CACHE, parse_flags_md(content))
        /\ FLAGS_CACHE' # FLAGS_CACHE
        /\ last_load' = Some(content)
    /\ UNCHANGED <<fs, call, result, submitted, cache_before, writes>>

\* The invocation returns.
RaceRespond ==
    /\ call.op = "apply_rewrite"
    /\ call.pc = "done"
    /\ call' = NoCall
    /\ result' = EmptyDict
    /\ cache_before' = EmptyDict
    /\ UNCHANGED <<FLAGS_CACHE, fs, submitted, last_load, writes>>

NextRace == RaceLookup \/ RaceGenerate \/ RaceReplace \/ RaceRespond

SpecRace == InitRace /\ [][NextRace]_vars

TypeOK ==
    /\ writes \in 0..MaxWrites
    /\ call.op \in {"none", "apply_rewrite", "list_flags",
                     "generate_rules_for_flag", "parse_flags_md",
                     "parse_flags_json"}

(***************************************************************************)
(* Properties.                                                             *)
(***************************************************************************)
IsApply == call.op = "apply_rewrite"

IsGen == call.op = "generate_rules_for_flag"

\* The invocation named a flag that the registry did not hold when it began.
CacheMiss ==
    /\ IsApply
    /\ TruthyStr(call.flag_name)
    /\ ~CacheHasFlag(cache_before, call.flag_name[1])

\* The candidate file the on-demand load reads, when there is a readable one.
FoundFile == fs[ProbeFlagsFile(fs)]

FoundReadable == FoundFile.exists /\ FoundFile.readable

FoundRegistry == parse_flags_md(FoundFile.content)

\* The response apply_rewrite gives for what the engine did with a call.
ResponseFor(code, rules, outcome) ==
    IF outcome.raises
    THEN HandleException(code, outcome.text)
    ELSE EngineResponse(code, rules, outcome.summaries)

\* The part of s that follows the first occurrence of marker.
RECURSIVE After(_, _)
After(s, marker) ==
    IF StartsWith(s, marker) THEN SubSeq(s, Len(marker) + 1, Len(s))
    ELSE IF s = "" THEN ""
    ELSE After(Tail(s), marker)

\* C1: when apply_rewrite is called with a flag name the registry lacks and
\* a config file found at a probed location defines that flag, the loaded
\* registry is installed and, in the same invocation, the rules synthesized
\* for the flag are submitted to the engine; the response is the engine's
\* outcome, as on a cache hit with the same registry.
C1_LoadThenRewrite ==
    (/\ CacheMiss
     /\ FoundReadable
     /\ DictHas(FoundRegistry.flags, call.flag_name[1]))
    => /\ FLAGS_CACHE = [flags |-> FoundRegistry.flags,
                         global_patterns |-> FoundRegistry.global_patterns]
       /\ Len(submitted) = 1
       /\ LET rules == generate_rules_for_flag(
                           FLAGS_CACHE, call.flag_name[1],
                           DictGet(FLAGS_CACHE["flags"], call.flag_name[1]),
                           call.language)
          IN  /\ submitted[1].args.rules
                    = [i \in 1..Len(rules) |-> NormalizeRule(rules[i])]
              /\ submitted[1].args.edges = <<>>
              /\ result = ResponseFor(call.code, rules, submitted[1].outcome)

\* C2: apply_rewrite called with a non-empty rules list, no flag name and
\* the edges argument omitted normalizes the rules, submits them to the
\* engine with an empty edge list, and returns the first result's content
\* as transformed_code, without an error field, when the engine returns at
\* least one result.
C2_RulesWithoutEdges ==
    (/\ IsApply
     /\ call.flag_name = None
     /\ call.rules # None
     /\ call.rules[1] # <<>>
     /\ call.edges = None)
    => /\ Len(submitted) = 1
       /\ submitted[1].args.rules
             = [i \in 1..Len(call.rules[1]) |-> NormalizeRule(call.rules[1][i])]
       /\ submitted[1].args.edges = <<>>
       /\ (~submitted[1].outcome.raises /\ Len(submitted[1].outcome.summaries) > 0)
            => /\ "error" \notin DOMAIN result
               /\ result.transformed_code
                     = submitted[1].outcome.summaries[1].content

\* C3: every response of apply_rewrite has a transformed_code field, and in
\* every response that has an error field transformed_code is the input
\* snippet.
C3_AlwaysTransformedCode ==
    IsApply
    => /\ "transformed_code" \in DOMAIN result
       /\ "error" \in DOMAIN result => result.transformed_code = call.code

\* An engine failure that is not a query-syntax error was reported.
C3_Witness ==
    /\ IsApply
    /\ Len(submitted) = 1
    /\ submitted[1].outcome.raises
    /\ "error" \in DOMAIN result
    /\ "suggestion" \notin DOMAIN result

\* C4: the registry starts empty, and after any sequence of invocations its
\* flags and pattern catalog are exactly those of the most recent successful
\* config load, never merged with an earlier load.
C4_RegistryIsLastLoad ==
    IF last_load = None
    THEN DOMAIN FLAGS_CACHE = {}
    ELSE LET parsed == parse_flags_md(last_load[1])
         IN  /\ DOMAIN FLAGS_CACHE = {"flags", "global_patterns"}
             /\ FLAGS_CACHE["flags"] = parsed.flags
             /\ FLAGS_CACHE["global_patterns"] = parsed.global_patterns

\* A load of DocOther replaced a registry that held flag "a" and only "f".
C4_Witness ==
    /\ call.op \in {"apply_rewrite", "list_flags"}
    /\ last_load = Some(DocOther)
    /\ CacheHasFlag(cache_before, "a")
    /\ cache_before["global_patterns"] = <<"f">>
    /\ ~CacheHasFlag(FLAGS_CACHE, "a")
    /\ FLAGS_CACHE["global_patterns"] = <<"g", "f">>

\* The catalog generate_rules_for_flag read (empty when the cache has none).
GenCatalog == GetOr(FLAGS_CACHE, "global_patterns", <<>>)

\* C5: for a catalog of k entries, counted with repetition,
\* generate_rules_for_flag returns 4*k rules, and none when the catalog is
\* empty or absent.
C5_RuleCount == IsGen => Len(result) = 4 * Len(GenCatalog)

\* Rules were generated from a catalog holding the same entry twice.
C5_Witness ==
    /\ IsGen
    /\ GenCatalog = <<"f", "f">>
    /\ Len(result) = 8

\* C6: for a flag record with enabled false, every generated rule has
\* replace "false", whatever replace_with the record carries.
C6_DisabledReplacesFalse ==
    (IsGen /\ ~call.flag_info.enabled)
    => \A i \in 1..Len(result) : result[i].replace = "false"

\* Rules were generated for a disabled flag that configures replace_with.
C6_Witness ==
    /\ IsGen
    /\ ~call.flag_info.enabled
    /\ "replace_with" \in DOMAIN call.flag_info
    /\ call.flag_info.replace_with = "x"
    /\ Len(result) > 0

\* C7: for a flag record with enabled true, every generated rule has replace
\* equal to the record's replace_with, and "true" when it has none.
C7_EnabledReplacesConfigured ==
    (IsGen /\ call.flag_info.enabled)
    => \A i \in 1..Len(result) :
          result[i].replace
            = IF "replace_with" \in DOMAIN call.flag_info
              THEN call.flag_info.replace_with
              ELSE "true"

\* Rules were generated for an enabled flag with a non-boolean replacement.
C7_Witness ==
    /\ IsGen
    /\ call.flag_info.enabled
    /\ "replace_with" \in DOMAIN call.flag_info
    /\ call.flag_info.replace_with = "x"
    /\ Len(result) > 0

\* C8: within one call all rule names are pairwise distinct, also with
\* duplicate catalog entries, and the names are replace_<flag>_0 ..
\* replace_<flag>_(4k-1) in order.
C8_RuleNames ==
    IsGen
    => /\ \A i, j \in 1..Len(result) :
             i # j => result[i].name # result[j].name
       /\ \A i \in 1..Len(result) :
             result[i].name
               = "replace_" \o call.flag_name \o "_" \o ToString(i - 1)

\* Rules were generated for flag "beta" from a catalog with a duplicate entry.
C8_Witness ==
    /\ IsGen
    /\ call.flag_name = "beta"
    /\ GenCatalog = <<"g", "g">>
    /\ Len(result) = 8
    /\ result[8].name = "replace_beta_7"

\* C9: apply_rewrite called with a flag name the registry lacks, when no
\* config file exists at any probed location, returns an error containing
\* 'not found' whose transformed_code is the input snippet, and does not
\* invoke the engine.
C9_ConfigNotFound ==
    (CacheMiss /\ \A p \in Paths : ~fs[p].exists)
    => /\ "error" \in DOMAIN result
       /\ Contains("not found", result.error)
       /\ result.transformed_code = call.code
       /\ submitted = <<>>

\* A flag was requested with an empty registry and no config file anywhere.
C9_Witness ==
    /\ CacheMiss
    /\ \A p \in Paths : ~fs[p].exists
    /\ call.flag_name = Some("zz")
    /\ "error" \in DOMAIN result

\* C10: apply_rewrite called with a flag name absent from the registry and
\* from the config file loaded on demand returns an error that lists exactly
\* the flag names of the newly loaded registry; transformed_code is the
\* input, the engine is not invoked, and the registry is the loaded one.
C10_FlagNotFound ==
    (/\ CacheMiss
     /\ FoundReadable
     /\ ~DictHas(FoundRegistry.flags, call.flag_name[1]))
    => /\ "error" \in DOMAIN result
       /\ StartsWith(result.error,
                     "Flag '" \o call.flag_name[1] \o "' not found")
       /\ After(result.error, "Available flags: ")
             = PyListRepr(DictKeys(FoundRegistry.flags))
       /\ result.transformed_code = call.code
       /\ submitted = <<>>
       /\ FLAGS_CACHE = [flags |-> FoundRegistry.flags,
                         global_patterns |-> FoundRegistry.global_patterns]

\* An unknown flag was requested and the config found defines "a" and "b".
C10_Witness ==
    /\ CacheMiss
    /\ FoundReadable
    /\ FoundFile.content = DocBoth
    /\ call.flag_name = Some("zz")
    /\ After(result.error, "Available flags: ") = "['a', 'b']"

IsList == call.op = "list_flags"

\* The file list_flags looked for in the last invocation.
ListedFile ==
    fs[FlagsPath(IF call.working_directory = None THEN Cwd
                 ELSE call.working_directory[1])]

\* The engine was called once and returned normally / raised.
EngineReturned ==
    IsApply /\ Len(submitted) = 1 /\ ~submitted[1].outcome.raises

EngineRaised ==
    IsApply /\ Len(submitted) = 1 /\ submitted[1].outcome.raises

\* C11: when the engine succeeds with zero results, also when a flag found
\* in the registry synthesizes no rules because the catalog is empty,
\* apply_rewrite returns the input snippet with a message and a debug text
\* stating the number of rules attempted, and no error field.
C11_ZeroMatch ==
    (EngineReturned /\ submitted[1].outcome.summaries = <<>>)
    => /\ "error" \notin DOMAIN result
       /\ result.transformed_code = call.code
       /\ "message" \in DOMAIN result
       /\ "debug" \in DOMAIN result
       /\ result.debug = "Generated "
                          \o ToString(Len(submitted[1].args.rules)) \o " rules"

\* A flag held by a registry without patterns was rewritten with zero rules.
C11_Witness ==
    /\ EngineReturned
    /\ submitted[1].outcome.summaries = <<>>
    /\ TruthyStr(call.flag_name)
    /\ CacheHasFlag(cache_before, call.flag_name[1])
    /\ cache_before["global_patterns"] = <<>>
    /\ result.debug = "Generated 0 rules"

\* C12: when the engine call fails, apply_rewrite returns a query-syntax
\* error with a suggestion exactly when the error text reports a query that
\* cannot be parsed, and a generic failure without suggestion otherwise; the
\* exception does not leave the tool.
C12_EngineFailure ==
    EngineRaised
    => /\ "exception" \notin DOMAIN result
       /\ "error" \in DOMAIN result
       /\ IF Contains("Cannot parse the tree-sitter query",
                      submitted[1].outcome.text)
          THEN /\ "suggestion" \in DOMAIN result
               /\ StartsWith(result.error, "Invalid tree-sitter query syntax")
          ELSE /\ "suggestion" \notin DOMAIN result
               /\ StartsWith(result.error, "Piranha execution failed")

\* The engine rejected a query and the response carries the suggestion.
C12_Witness ==
    /\ EngineRaised
    /\ submitted[1].outcome.text = "Cannot parse the tree-sitter query: cs x"
    /\ "suggestion" \in DOMAIN result

\* C13: every failure response of list_flags (file absent, or unreadable)
\* has an error field and flags equal to the empty list; when the file is
\* absent it also has a suggestion.
C13_ListFailure ==
    (IsList /\ (~ListedFile.exists \/ ~ListedFile.readable))
    => /\ "error" \in DOMAIN result
       /\ "flags" \in DOMAIN result
       /\ result.flags = <<>>
       /\ ~ListedFile.exists => "suggestion" \in DOMAIN result

\* list_flags found the file but could not read it.
C13_Witness ==
    /\ IsList
    /\ ListedFile.exists
    /\ ~ListedFile.readable
    /\ "error" \in DOMAIN result

\* The directory a list_flags call looks into.
ListedDir == IF call.working_directory = None THEN Cwd ELSE call.working_directory[1]

HasFlagsJson(dir) == JsonPath(dir) \in DOMAIN fs /\ fs[JsonPath(dir)].exists

\* C14: list_flags on a directory that contains flags.json loads it: no error
\* field, flags lists exactly the names the file defines, flag_details and
\* global_patterns are present; without flags.json the error text says
\* 'flags.json not found'.
C14_ListLoadsFlagsJson ==
    IsList
    => IF HasFlagsJson(ListedDir)
       THEN /\ "error" \notin DOMAIN result
            /\ result.flags = <<"a", "b">>
            /\ "flag_details" \in DOMAIN result
            /\ "global_patterns" \in DOMAIN result
       ELSE /\ "error" \in DOMAIN result
            /\ Contains("flags.json not found", result.error)

IsJson == call.op = "parse_flags_json"

\* C15: for every flag of a structured config whose source value is a boolean
\* v the parsed record has enabled = v and value = "true" if v else "false";
\* for a string source value s, enabled = (lowercase(s) = "true").
C15_JsonEnabled ==
    (IsJson /\ call.doc.obj # None)
    => \A i \in 1..Len(call.doc.obj[1].flags) :
          LET src == call.doc.obj[1].flags[i].v.value
              r   == DictGet(result.flags, call.doc.obj[1].flags[i].k)
          IN  IF src.t = "bool"
              THEN /\ r.enabled = src.b
                   /\ r.value = (IF src.b THEN "true" ELSE "false")
              ELSE r.enabled = (Lower(src.s) = "true")

\* A config with a boolean flag and a flag spelled "True" was parsed.
C15_Witness ==
    /\ IsJson
    /\ call.doc.text
         = "{\"flags\": {\"a\": {\"value\": true}, \"b\": {\"value\": \"True\"}}}"
    /\ DictGet(result.flags, "a").value = "true"
    /\ DictGet(result.flags, "a").enabled
    /\ DictGet(result.flags, "b").value = "True"
    /\ DictGet(result.flags, "b").enabled

\* C16: parsing a structured config whose text is not well-formed fails with
\* a ValueError that cites the underlying syntax error, and that load attempt
\* leaves the registry as it was.
C16_MalformedJson ==
    (IsJson /\ call.doc.obj = None)
    => /\ DOMAIN result = {"raised", "message"}
       /\ result.raised = "ValueError"
       /\ call.doc.error # ""
       /\ Contains(call.doc.error, result.message)
       /\ FLAGS_CACHE = cache_before

\* A malformed text was rejected while the registry held flags.
C16_Witness ==
    /\ IsJson
    /\ call.doc.text = "{\"flags\": invalid json}"
    /\ "raised" \in DOMAIN result
    /\ "flags" \in DOMAIN FLAGS_CACHE
    /\ Len(FLAGS_CACHE["flags"]) = 2

\* The flag records the registry holds.
RegistryFlags == GetOr(FLAGS_CACHE, "flags", EmptyDict)

\* C17: in every state reachable through list_flags and apply_rewrite, every
\* flag record of the registry has enabled = (lowercase(value) = "true"); a
\* value TRUE or True gives enabled, any other literal gives not enabled.
C17_EnabledFromValue ==
    \A i \in 1..Len(RegistryFlags) :
        LET r == RegistryFlags[i].v
        IN  /\ r.enabled = (Lower(r.value) = "true")
            /\ r.value \in {"true", "True", "TRUE"} => r.enabled
            /\ r.value \in {"false", "no", ""} => ~r.enabled

\* The registry holds an enabled flag whose value is written TRUE.
C17_Witness ==
    /\ call.op \in {"apply_rewrite", "list_flags"}
    /\ DictHas(RegistryFlags, "c")
    /\ DictGet(RegistryFlags, "c").value = "TRUE"
    /\ DictGet(RegistryFlags, "c").enabled
    /\ ~DictGet(RegistryFlags, "a").enabled

IsParse == call.op = "parse_flags_md"

\* The lines of the Functions section that are not blank.
RECURSIVE NonBlank(_)
NonBlank(lines) ==
    IF lines = <<>> THEN <<>>
    ELSE (IF Strip(Head(lines).text) # "" THEN <<Head(lines)>> ELSE <<>>)
         \o NonBlank(Tail(lines))

LastLineFor(flag_lines, name) ==
    flag_lines[CHOOSE i \in 1..Len(flag_lines) :
                 /\ flag_lines[i].fields # <<>>
                 /\ flag_lines[i].fields[1] = name
                 /\ \A j \in (i + 1)..Len(flag_lines) :
                       \/ flag_lines[j].fields = <<>>
                       \/ flag_lines[j].fields[1] # name]

\* C19: a flag line is split into at most 4 colon-delimited fields, further
\* colons staying in the fourth; description is the third field or empty,
\* replace_with is the fourth field when there is one and value otherwise.
C19_FlagFields ==
    IsParse
    => \A i \in 1..Len(result.flags) :
          LET f == LastLineFor(call.flag_lines, result.flags[i].k).fields
              r == result.flags[i].v
          IN  /\ Len(f) <= 4
              /\ r.value = f[2]
              /\ r.description = IF Len(f) >= 3 THEN f[3] ELSE ""
              /\ r.replace_with = IF Len(f) >= 4 THEN f[4] ELSE f[2]

\* A line with five colons was parsed: the fourth field keeps the rest.
C19_Witness ==
    /\ IsParse
    /\ Len(call.flag_lines) = 1
    /\ call.flag_lines[1].text = "a:TRUE:d:r:s"
    /\ DictGet(result.flags, "a").replace_with = "r:s"
    /\ DictGet(result.flags, "a").description = "d"

\* The flag names a section defines, in order of first definition.
RECURSIVE DefinedNames(_, _)
DefinedNames(flag_lines, seen) ==
    IF flag_lines = <<>> THEN <<>>
    ELSE LET f == Head(flag_lines).fields
         IN  IF f = <<>> \/ f[1] \in seen
             THEN DefinedNames(Tail(flag_lines), seen)
             ELSE <<f[1]>> \o DefinedNames(Tail(flag_lines), seen \cup {f[1]})

\* C20: the document parser returns a result for every input text and never
\* raises; a non-empty Flags line without a colon adds no record and the
\* lines before and after it are still parsed.
C20_LenientLines ==
    IsParse
    => /\ DOMAIN result = {"flags", "global_patterns"}
       /\ DictKeys(result.flags) = DefinedNames(call.flag_lines, {})

\* A line without a colon stood between two flag lines; both were parsed.
C20_Witness ==
    /\ IsParse
    /\ Len(call.flag_lines) = 3
    /\ call.flag_lines[1].text = "a:true"
    /\ call.flag_lines[2].text = "nocolon"
    /\ call.flag_lines[3].text = "b:True:d:"
    /\ DictKeys(result.flags) = <<"a", "b">>

\* Shape s (0..3) of the call of function fn on the flag.
ShapeText(s, fn, flag) ==
    CASE s = 0 -> fn \o "(\"" \o flag \o "\")"
      [] s = 1 -> fn \o "(\"" \o flag \o "\", $args)"
      [] s = 2 -> fn \o "($args, \"" \o flag \o "\")"
      [] s = 3 -> fn \o "($args, \"" \o flag \o "\", $more_args)"

\* C22: generate_rules_for_flag emits rules in catalog-then-shape order: the
\* rule at position 4*j+s is named replace_<flag>_<4*j+s>, its query is "cs "
\* followed by shape s of catalog entry j, its replace_node is "*" and it is a
\* seed rule; what is returned is a list of rules only, never an edge.
C22_CatalogThenShape ==
    IsGen
    => /\ Len(result) = 4 * Len(GenCatalog)
       /\ \A j \in 0..(Len(GenCatalog) - 1) : \A s \in 0..3 :
             LET r == result[4 * j + s + 1]
             IN  /\ DOMAIN r = {"name", "query", "replace_node", "replace",
                                "is_seed_rule"}
                 /\ r.name = "replace_" \o call.flag_name \o "_"
                             \o ToString(4 * j + s)
                 /\ r.query = "cs " \o ShapeText(s, GenCatalog[j + 1],
                                                 call.flag_name)
                 /\ r.replace_node = "*"
                 /\ r.is_seed_rule

\* Rules were generated from a two-entry catalog: rule 5 is shape 1 of entry 1.
C22_Witness ==
    /\ IsGen
    /\ call.flag_name = "beta"
    /\ GenCatalog = <<"g", "f">>
    /\ result[6].name = "replace_beta_5"
    /\ result[6].query = "cs f(\"beta\", $args)"

\* C25: for a fixed flag name, flag record and registry,
\* generate_rules_for_flag returns the same rule list for every language.
C25_LanguageIgnored ==
    IsGen
    => \A language \in GenLanguages :
          generate_rules_for_flag(FLAGS_CACHE, call.flag_name,
                                  call.flag_info, language) = result

\* Rules were generated for Java and are those generated for Go.
C25_Witness ==
    /\ IsGen
    /\ call.language = "java"
    /\ Len(result) = 8
    /\ result = generate_rules_for_flag(FLAGS_CACHE, call.flag_name,
                                        call.flag_info, "go")

\* The document lacks the Functions section or the Flags section.
MissingSection(content) ==
    ~HasSection(content, "## Functions") \/ ~HasSection(content, "## Flags")

ListedReadable == ListedFile.exists /\ ListedFile.readable

\* C21: loading a document config that has no Functions section or no Flags
\* section is reported as a failure, as for a config that is not found, and
\* is not a successful load of an empty registry.
C21_MissingSectionFails ==
    /\ (IsList /\ ListedReadable /\ MissingSection(ListedFile.content))
       => "error" \in DOMAIN result /\ FLAGS_CACHE = cache_before
    /\ (CacheMiss /\ FoundReadable /\ MissingSection(FoundFile.content))
       => "error" \in DOMAIN result /\ FLAGS_CACHE = cache_before

\* C21 as amended: such a document loads.  The registry is replaced by one
\* with no flags when the Flags section is missing and an empty catalog when
\* the Functions section is missing; list_flags answers without an error
\* field, and the on-demand load of apply_rewrite answers with an error only
\* when the file does not define the named flag (FlagNotFound).
C21_MissingSectionLoads ==
    /\ (IsList /\ ListedReadable /\ MissingSection(ListedFile.content))
       => /\ "error" \notin DOMAIN result
          /\ DOMAIN FLAGS_CACHE = {"flags", "global_patterns"}
          /\ result.flags = DictKeys(FLAGS_CACHE["flags"])
          /\ result.global_patterns = FLAGS_CACHE["global_patterns"]
          /\ ~HasSection(ListedFile.content, "## Flags")
               => FLAGS_CACHE["flags"] = EmptyDict
          /\ ~HasSection(ListedFile.content, "## Functions")
               => FLAGS_CACHE["global_patterns"] = <<>>
    /\ (CacheMiss /\ FoundReadable /\ MissingSection(FoundFile.content))
       => /\ DOMAIN FLAGS_CACHE = {"flags", "global_patterns"}
          /\ ~HasSection(FoundFile.content, "## Flags")
               => FLAGS_CACHE["flags"] = EmptyDict
          /\ ~HasSection(FoundFile.content, "## Functions")
               => FLAGS_CACHE["global_patterns"] = <<>>
          /\ "error" \in DOMAIN result
               => /\ StartsWith(result.error, "Flag '")
                  /\ ~DictHas(FLAGS_CACHE["flags"], call.flag_name[1])

\* list_flags loaded a document without a Flags section over a registry
\* that held flags: the registry now has the catalog and no flag.
C21_Witness ==
    /\ IsList
    /\ ListedReadable
    /\ ListedFile.content = DocNoFlags
    /\ "error" \notin DOMAIN result
    /\ CacheHasFlag(cache_before, "a")
    /\ FLAGS_CACHE = [flags |-> EmptyDict, global_patterns |-> <<"f">>]

\* C24: the engine is invoked at most once per apply_rewrite invocation: not
\* again after it failed, and not at all when the named flag had to be looked
\* up in a config file (ConfigNotFound, FlagNotFound, load failure).
C24_EngineAtMostOnce ==
    IsApply
    => /\ Len(submitted) <= 1
       /\ (\E i \in 1..Len(submitted) : submitted[i].outcome.raises)
            => Len(submitted) = 1
       /\ (CacheMiss /\ "error" \in DOMAIN result) => submitted = <<>>

\* The engine failed on the rules synthesized for a cached flag.
C24_Witness ==
    /\ IsApply
    /\ call.flag_name = Some("a")
    /\ CacheHasFlag(cache_before, "a")
    /\ Len(submitted) = 1
    /\ submitted[1].outcome.raises
    /\ submitted[1].outcome.text = "unsupported language"
    /\ "error" \in DOMAIN result

\* The invocation could not have read and parsed a config file.
NoLoad ==
    \/ /\ IsApply
       /\ \/ ~TruthyStr(call.flag_name)
          \/ CacheHasFlag(cache_before, call.flag_name[1])
          \/ ~FoundFile.exists
          \/ ~FoundFile.readable
    \/ IsList /\ ~ListedReadable

\* C27: the registry changes only in a step that read and parsed a config
\* file: apply_rewrite on a cache hit, without a flag name, or ending in
\* ConfigNotFound or a load failure, and list_flags on an absent or
\* unreadable file, leave the registry as it was before the invocation.
C27_RegistryFrame ==
    /\ NoLoad => FLAGS_CACHE = cache_before
    /\ ((IsApply \/ IsList) /\ FLAGS_CACHE # cache_before)
         => \/ IsList /\ ListedReadable
            \/ CacheMiss /\ FoundReadable

\* A load failed on an unreadable file while the registry held flag "a".
C27_Witness ==
    /\ CacheMiss
    /\ FoundFile.exists
    /\ ~FoundFile.readable
    /\ StartsWith(result.error, "Failed to load flags")
    /\ CacheHasFlag(cache_before, "a")
    /\ FLAGS_CACHE = cache_before

\* C29: when apply_rewrite receives a flag name that is present in the
\* registry together with caller-supplied rules and edges, the supplied rules
\* and edges are discarded: exactly the rules synthesized for the flag, and
\* no edges, are submitted to the engine.
C29_SuppliedRulesDiscarded ==
    (/\ IsApply
     /\ call.flag_name # None
     /\ DictHas(GetOr(cache_before, "flags", EmptyDict), call.flag_name[1])
     /\ call.rules # None
     /\ call.edges # None)
    => /\ Len(submitted) = 1
       /\ LET rules == generate_rules_for_flag(
                           cache_before, call.flag_name[1],
                           DictGet(cache_before["flags"], call.flag_name[1]),
                           call.language)
          IN  submitted[1].args.rules
                = [i \in 1..Len(rules) |-> NormalizeRule(rules[i])]
       /\ submitted[1].args.edges = <<>>

\* The kind of the last heading before line i, "none" when there is none.
SectionAt(lines, i) ==
    LET H == {j \in 1..(i - 1) : lines[j].kind # "text"}
    IN  IF H = {} THEN "none"
        ELSE lines[CHOOSE j \in H : \A k \in H : k <= j].kind

\* The content lines that stand in the section of the given kind.
LinesIn(lines, kind) ==
    {i \in 1..Len(lines) : lines[i].kind = "text" /\ SectionAt(lines, i) = kind}

\* C23: a line starting with ## that is neither `## Functions` nor
\* `## Flags` closes both sections: the lines after it, up to the next of
\* those two headings, add no pattern and no flag; lines before the first
\* section heading add nothing; the parser is never in both sections at once.
C23_OtherHeadingCloses ==
    IsParse
    => LET fn == LinesIn(call.lines, "functions")
           fl == {i \in LinesIn(call.lines, "flags") : call.lines[i].fields # <<>>}
       IN  /\ result.global_patterns
                = IF fn = {} THEN <<>>
                  ELSE call.lines[CHOOSE i \in fn : \A k \in fn : k <= i].names
           /\ {result.flags[i].k : i \in 1..Len(result.flags)}
                = {call.lines[i].fields[1] : i \in fl}
           /\ \A i \in 1..Len(call.states) :
                 ~(call.states[i].in_functions /\ call.states[i].in_flags)

\* Content after `## Notes` and after `## flags` was dropped although the
\* Functions and the Flags section had been opened before.
C23_Witness ==
    /\ IsParse
    /\ LineTexts(call.lines)
         = <<"## Functions", "## Notes", "f,g", " ## Flags", "## flags">>
    /\ result = [flags |-> EmptyDict, global_patterns |-> <<>>]

\* C30: when the Flags section defines the same flag name on more than one
\* line, the registry holds exactly one record for that name and it is the
\* one of the last such line; names are compared case-sensitively after
\* trimming surrounding whitespace.
C30_LastDefinitionWins ==
    IsParse
    => \A l \in {i \in 1..Len(call.flag_lines) : call.flag_lines[i].fields # <<>>} :
          LET name == call.flag_lines[l].fields[1]
              last == LastLineFor(call.flag_lines, name).fields
              at   == {i \in 1..Len(result.flags) : result.flags[i].k = name}
          IN  /\ Cardinality(at) = 1
              /\ \A i \in at :
                    /\ result.flags[i].v.value = last[2]
                    /\ result.flags[i].v.enabled = (Lower(last[2]) = "true")

\* Flag "a" was defined twice with "A" in between: "a" has the record of its
\* second line and "A" its own.
C30_Witness ==
    /\ IsParse
    /\ Len(call.flag_lines) = 3
    /\ call.flag_lines[1].text = "a:true"
    /\ call.flag_lines[2].text = "A:false"
    /\ call.flag_lines[3].text = "a:TRUE:d:r:s"
    /\ DictKeys(result.flags) = <<"a", "A">>
    /\ DictGet(result.flags, "a").value = "TRUE"
    /\ DictGet(result.flags, "A").value = "false"

\* C26: parsing a config text and synthesizing rules leave the registry
\* unchanged: a step of parse_flags_md or of generate_rules_for_flag never
\* writes the cache.
C26_PureFunctions ==
    [][call'.op \in {"parse_flags_md", "generate_rules_for_flag"}
         => FLAGS_CACHE' = FLAGS_CACHE]_vars

\* A document with flags was parsed while the registry held only a catalog.
C26_Witness ==
    /\ IsParse
    /\ call.content = DocBoth
    /\ Len(result.flags) = 2
    /\ FLAGS_CACHE = [flags |-> EmptyDict, global_patterns |-> <<"g", "f">>]

\* C28: the rules one apply_rewrite invocation synthesizes for a flag are
\* built from a flag record and a catalog of the same registry version, also
\* when another invocation replaces the cache between the lookup of the
\* record and the read of the catalog.
C28_SameRegistryVersion ==
    (IsApply /\ call.pc = "done")
    => \E v \in RegistryVersions :
          /\ CacheHasFlag(v, call.flag_name)
          /\ DictGet(v["flags"], call.flag_name) = call.flag_info
          /\ v["global_patterns"] = call.catalog
          /\ result.rules = generate_rules_for_flag(
                                v, call.flag_name, call.flag_info, call.language)

====
